---------------------------- MODULE Spec2Model ----------------------------
(***************************************************************************)
(* Model of the sales dashboard of src/app.py: the table `df`, the two     *)
(* Dash callbacks update_dashboard and export_csv, the component           *)
(* properties they are wired to, and the file sales_data.csv.              *)
(*                                                                         *)
(* A Python str is a sequence of one-character strings, so that f-string   *)
(* concatenation, number formatting and CSV serialisation are computed     *)
(* character by character.                                                 *)
(***************************************************************************)
EXTENDS Integers, Sequences, FiniteSets, TLC

(***************************************************************************)
(* Bounds of the model.                                                    *)
(***************************************************************************)
\* dropdown changes a run may make
MaxSelects == 3
\* export-button clicks a run may make
MaxClicks == 3
\* browser sessions exporting concurrently (SpecConc)
NumSessions == 2

(***************************************************************************)
(* Python values.                                                          *)
(***************************************************************************)
\* Python's None: a value that is no str (its one element is no character).
None == <<"None">>

Range(s) == {s[i] : i \in 1..Len(s)}

Contains(s, x) == \E i \in 1..Len(s) : s[i] = x

StartsWith(s, p) == Len(s) >= Len(p) /\ SubSeq(s, 1, Len(p)) = p

RECURSIVE Concat(_)
\* the concatenation of a sequence of strings
Concat(ss) == IF ss = <<>> THEN <<>> ELSE Head(ss) \o Concat(Tail(ss))

RECURSIVE Join(_, _)
\* sep.join(ss)
Join(ss, sep) ==
    IF ss = <<>> THEN <<>>
    ELSE IF Len(ss) = 1 THEN ss[1]
    ELSE ss[1] \o sep \o Join(Tail(ss), sep)

DigitChar == <<"0","1","2","3","4","5","6","7","8","9">>

RECURSIVE Decimal(_)
\* str(n) for an int n >= 0
Decimal(n) ==
    IF n < 10 THEN <<DigitChar[n + 1]>>
    ELSE Decimal(n \div 10) \o <<DigitChar[(n % 10) + 1]>>

(***************************************************************************)
(* The table: app.py lines 45-53.                                          *)
(***************************************************************************)
s_month == <<"m","o","n","t","h">>
s_Electronics == <<"E","l","e","c","t","r","o","n","i","c","s">>
s_Clothing == <<"C","l","o","t","h","i","n","g">>
s_Food == <<"F","o","o","d">>

data ==
    [ keys |-> <<s_month, s_Electronics, s_Clothing, s_Food>>,
      vals |-> << << <<"J","a","n">>, <<"F","e","b">>, <<"M","a","r">>,
                     <<"A","p","r">>, <<"M","a","y">>, <<"J","u","n">> >>,
                  <<15000, 18000, 22000, 19000, 24000, 21000>>,
                  <<8000, 9500, 11000, 10500, 12000, 13000>>,
                  <<12000, 13000, 14000, 14500, 15000, 16000>> >> ]

\* the dtype pandas infers for a column of the literal
InferDtype(d, i) == IF i = 1 THEN "object" ELSE "int64"

\* pd.DataFrame(d): the columns in the dict's order, each with its dtype
DataFrame(d) ==
    [ columns |-> d.keys,
      dtype   |-> [i \in 1..Len(d.keys) |-> InferDtype(d, i)],
      values  |-> d.vals ]

\* the position of column `name` of `frame` (the column must exist)
ColumnIndex(frame, name) ==
    CHOOSE i \in 1..Len(frame.columns) : frame.columns[i] = name

\* frame[name]
Column(frame, name) == frame.values[ColumnIndex(frame, name)]

ColumnDtype(frame, name) == frame.dtype[ColumnIndex(frame, name)]

\* the number of rows
NRows(frame) == Len(frame.values[1])

\* line 53: the module-level table; no statement of the module assigns to
\* it or to one of its cells after this line
df == DataFrame(data)


(***************************************************************************)
(* Figures: what px.bar and px.line build from the table.                  *)
(***************************************************************************)
\* dash.no_update: the value that leaves an output's property as it is
no_update == [type |-> "no_update"]

\* a graph's figure property before any callback has set it
NoFigure == [type |-> "none"]

RECURSIVE Unique(_)
\* the distinct values of a sequence, in order of first appearance
Unique(s) ==
    IF s = <<>> THEN <<>>
    ELSE LET r == Unique(SubSeq(s, 1, Len(s) - 1))
         IN  IF Contains(r, s[Len(s)]) THEN r ELSE Append(r, s[Len(s)])

RECURSIVE RowsWhere(_, _, _)
\* the row numbers i..Len(col) at which column `col` holds `v`, ascending
RowsWhere(col, v, i) ==
    IF i > Len(col) THEN <<>>
    ELSE (IF col[i] = v THEN <<i>> ELSE <<>>) \o RowsWhere(col, v, i + 1)

\* the values of `col` at the rows `rows`
Take(col, rows) == [k \in 1..Len(rows) |-> col[rows[k]]]

\* px.bar(frame, x=, y=, title=, color=, text=): one trace per distinct value
\* of the colour column, holding the rows with that value in table order
px_bar(frame, x, y, title, color, text) ==
    LET groups == Unique(Column(frame, color))
    IN  [ type   |-> "bar",
          title  |-> title,
          traces |-> [g \in 1..Len(groups) |->
                        LET rows == RowsWhere(Column(frame, color), groups[g], 1)
                        IN  [ name |-> groups[g],
                              x    |-> Take(Column(frame, x), rows),
                              y    |-> Take(Column(frame, y), rows),
                              text |-> Take(Column(frame, text), rows),
                              mode |-> "bars" ]],
          showlegend  |-> TRUE,
          yaxis_title |-> y,
          template    |-> <<"p","l","o","t","l","y">> ]

\* px.line(frame, x=, y=, markers=, title=): one trace over all rows
px_line(frame, x, y, markers, title) ==
    [ type   |-> "line",
      title  |-> title,
      traces |-> << [ name |-> <<>>,
                      x    |-> Column(frame, x),
                      y    |-> Column(frame, y),
                      text |-> <<>>,
                      mode |-> IF markers THEN "lines+markers" ELSE "lines" ] >>,
      showlegend  |-> FALSE,
      yaxis_title |-> y,
      template    |-> <<"p","l","o","t","l","y">> ]

s_yaxis_title == <<"S","a","l","e","s"," ","(","$",")">>
s_plotly_white == <<"p","l","o","t","l","y","_","w","h","i","t","e">>
s_bar_title == <<"M","o","n","t","h","l","y"," ","S","a","l","e","s"," ","-"," ">>
s_line_title == <<"S","a","l","e","s"," ","T","r","e","n","d"," ","-"," ">>

\* bar_fig: lines 201-213
BarFigure(frame, selected_category) ==
    [ px_bar(frame, s_month, selected_category,
             s_bar_title \o selected_category, s_month, selected_category)
      EXCEPT !.showlegend = FALSE,
             !.yaxis_title = s_yaxis_title,
             !.template = s_plotly_white ]

\* LineFigure with the fault of y fixed to the default category
LineFigureOfDefault(frame, selected_category) ==
    [ px_line(frame, s_month, s_Electronics, TRUE,
              s_line_title \o selected_category)
      EXCEPT !.yaxis_title = s_yaxis_title,
             !.template = s_plotly_white ]

\* line_fig: lines 216-226
LineFigure(frame, selected_category) ==
    [ px_line(frame, s_month, selected_category, TRUE,
              s_line_title \o selected_category)
      EXCEPT !.yaxis_title = s_yaxis_title,
             !.template = s_plotly_white ]

(***************************************************************************)
(* The total: df[c].sum() and the format specification ",.0f".             *)
(***************************************************************************)
RECURSIVE SumInts(_)
SumInts(s) == IF s = <<>> THEN 0 ELSE Head(s) + SumInts(Tail(s))

\* Series.sum(): the arithmetic sum of an int64 column, the concatenation
\* of an object column of str
SeriesSum(frame, name) ==
    IF ColumnDtype(frame, name) = "int64"
    THEN [type |-> "int", v |-> SumInts(Column(frame, name))]
    ELSE [type |-> "str", v |-> Concat(Column(frame, name))]

RECURSIVE GroupThousands(_)
\* the digits with a comma before every group of three counted from the right
GroupThousands(digits) ==
    IF Len(digits) <= 3 THEN digits
    ELSE GroupThousands(SubSeq(digits, 1, Len(digits) - 3))
         \o <<",">> \o SubSeq(digits, Len(digits) - 2, Len(digits))

s_format_error ==
    <<"U","n","k","n","o","w","n"," ","f","o","r","m","a","t"," ","c","o","d","e",
      " ","'","f","'"," ","f","o","r"," ","o","b","j","e","c","t"," ","o","f"," ",
      "t","y","p","e"," ","'","s","t","r","'">>

\* FormatCommaF0 with the fault of the format specification ".0f", which
\* groups no digits
FormatNoGrouping(x) ==
    IF x.type = "int"
    THEN [raised |-> FALSE, v |-> Decimal(x.v)]
    ELSE [raised |-> TRUE,  v |-> s_format_error]

\* format(x, ",.0f"): an int >= 0 is written with thousands separators and
\* no decimals; a str raises ValueError
FormatCommaF0(x) ==
    IF x.type = "int"
    THEN [raised |-> FALSE, v |-> GroupThousands(Decimal(x.v))]
    ELSE [raised |-> TRUE,  v |-> s_format_error]

(***************************************************************************)
(* update_dashboard: lines 190-237.                                        *)
(***************************************************************************)
s_invalid ==
    <<"U+26A0","U+FE0F"," ","I","n","v","a","l","i","d"," ","c","a","t","e","g",
      "o","r","y"," ","s","e","l","e","c","t","e","d",".">>
s_update_error ==
    <<"A","n"," ","e","r","r","o","r"," ","o","c","c","u","r","r","e","d"," ",
      "w","h","i","l","e"," ","u","p","d","a","t","i","n","g",":"," ">>

\* line 197: selected_category not in df.columns
NotInColumns(frame, selected_category) ==
    ~Contains(frame.columns, selected_category)

\* InvalidResult with the fault of returning empty figures, which clears
\* both charts
InvalidResultCleared == <<NoFigure, NoFigure, s_invalid>>

\* line 198
InvalidResult == <<no_update, no_update, s_invalid>>

\* lines 234-237: the except clause
UpdateErrorResult(e) == <<no_update, no_update, s_update_error \o e>>

\* line 232
UpdateResult(bar_fig, line_fig, total_text) == <<bar_fig, line_fig, total_text>>

\* the triple update_dashboard returns, reading table `frame`
UpdateOn(frame, selected_category) ==
    IF NotInColumns(frame, selected_category) THEN InvalidResult
    ELSE LET bar_fig  == BarFigure(frame, selected_category)
             line_fig == LineFigure(frame, selected_category)
             total_sales == SeriesSum(frame, selected_category)
             formatted == FormatCommaF0(total_sales)
         IN  IF formatted.raised THEN UpdateErrorResult(formatted.v)
             ELSE UpdateResult(bar_fig, line_fig, <<"$">> \o formatted.v)

(***************************************************************************)
(* The file system: the one file sales_data.csv of the working directory.  *)
(* A file is [exists, content]; content is its bytes.                      *)
(***************************************************************************)
\* the byte a write past the end of a file leaves in the gap
NUL == "NUL"

\* OpenW with the fault of mode "a": nothing is truncated and the offset
\* starts at the end of the file
OpenAppend(d) ==
    [file |-> [exists |-> TRUE, content |-> d.content], offset |-> Len(d.content)]

\* open(filename, "w"): creates the file or truncates it to length 0; the
\* descriptor's offset starts at 0
OpenW(d) == [file |-> [exists |-> TRUE, content |-> <<>>], offset |-> 0]

\* WriteAt with the fault of O_APPEND: every write goes to the end of the
\* file, whatever the descriptor's offset
WriteAtEnd(content, off, bytes) == content \o bytes

\* write(2) of `bytes` at the descriptor's own offset `off`
WriteAt(content, off, bytes) ==
    LET n == IF Len(content) > off + Len(bytes) THEN Len(content)
             ELSE off + Len(bytes)
    IN  [i \in 1..n |->
            IF i > off /\ i <= off + Len(bytes) THEN bytes[i - off]
            ELSE IF i <= Len(content) THEN content[i]
            ELSE NUL]

(***************************************************************************)
(* DataFrame.to_csv: lines 252-253.                                        *)
(***************************************************************************)
s_filename == <<"s","a","l","e","s","_","d","a","t","a",".","c","s","v">>
s_eacces ==
    <<"[","E","r","r","n","o"," ","1","3","]"," ","P","e","r","m","i","s","s",
      "i","o","n"," ","d","e","n","i","e","d",":"," ","'">> \o s_filename \o <<"'">>
s_enospc ==
    <<"[","E","r","r","n","o"," ","2","8","]"," ","N","o"," ","s","p","a","c",
      "e"," ","l","e","f","t"," ","o","n"," ","d","e","v","i","c","e">>

\* the text of the cell at row i, column j
CsvField(frame, i, j) ==
    IF frame.dtype[j] = "int64" THEN Decimal(frame.values[j][i])
    ELSE frame.values[j][i]

\* one line of the file: the fields joined by commas, then the terminator
CsvLine(fields) == Join(fields, <<",">>) \o <<"\n">>

\* the lines to_csv writes: the header, then one line per row; with
\* index=True every line starts with the row label (the header's is empty)
CsvLines(frame, index) ==
    LET ncol == Len(frame.columns)
        lead(label) == IF index THEN <<label>> ELSE <<>>
    IN  << CsvLine(lead(<<>>) \o frame.columns) >>
        \o [i \in 1..NRows(frame) |->
              CsvLine(lead(Decimal(i - 1))
                      \o [j \in 1..ncol |-> CsvField(frame, i, j)])]

\* IndexArg with the fault of the argument left out (pandas' default is
\* True)
IndexArgDefault == TRUE

\* line 253: the index argument of df.to_csv(filename, index=False)
IndexArg == FALSE

\* the lines df.to_csv(filename, index=False) writes
ExportLines == CsvLines(df, IndexArg)

\* the bytes df.to_csv(filename, index=False) writes
ExportText == Concat(ExportLines)

\* the offset in the file of line k + 1
LineOffset(k) == Len(Concat(SubSeq(ExportLines, 1, k)))

\* how the operating system answers the write of the file: it succeeds,
\* open fails (EACCES), or the device fills after `written` bytes (ENOSPC),
\* at the end of a line or one byte into the next
IoOutcomes ==
    {[kind |-> "ok", written |-> Len(ExportText)],
     [kind |-> "EACCES", written |-> 0]}
    \cup {[kind |-> "ENOSPC", written |-> LineOffset(k) + m] :
            k \in 0..(Len(ExportLines) - 1), m \in {0, 1}}

\* df.to_csv under outcome io: the file afterwards, and the OSError raised
to_csv(d, io) ==
    IF io.kind = "EACCES"
    THEN [raised |-> TRUE, e |-> s_eacces, disk |-> d]
    ELSE [ raised |-> io.kind # "ok",
           e      |-> IF io.kind = "ok" THEN None ELSE s_enospc,
           disk   |-> [ OpenW(d).file EXCEPT !.content =
                          WriteAt(OpenW(d).file.content, OpenW(d).offset,
                                  SubSeq(ExportText, 1, io.written)) ] ]

(***************************************************************************)
(* export_csv: lines 246-256.                                              *)
(***************************************************************************)
s_exported ==
    <<"D","a","t","a"," ","e","x","p","o","r","t","e","d"," ","s","u","c","c",
      "e","s","s","f","u","l","l","y"," ","a","s"," ">>
s_failed ==
    <<"F","a","i","l","e","d"," ","t","o"," ","e","x","p","o","r","t"," ","d",
      "a","t","a",":"," ">>

\* line 254
ExportSuccess(filename) == [raised |-> FALSE, ret |-> s_exported \o filename]

\* ExportExcept with the fault of re-raising the exception
ExportExceptReraise(e) == [raised |-> TRUE, ret |-> None]

\* lines 255-256: the except clause
ExportExcept(e) == [raised |-> FALSE, ret |-> s_failed \o e]

\* what export_csv returns (or raises) and the file it leaves
export_csv(d, io) ==
    LET w == to_csv(d, io)
        r == IF w.raised THEN ExportExcept(w.e) ELSE ExportSuccess(s_filename)
    IN  [raised |-> r.raised, ret |-> r.ret, disk |-> w.disk]

(***************************************************************************)
(* The layout and the callback wiring: lines 74-173, 182-189, 241-245.     *)
(***************************************************************************)
\* lines 94-98: one dropdown option per column other than "month"
DropdownOptions(frame) == {c \in Range(frame.columns) : c # s_month}

\* DefaultValue with the fault of another option as the default
DefaultValueClothing == s_Clothing

\* line 99: the dropdown's value before any interaction
DefaultValue == s_Electronics

\* prevent_initial_call with the fault of the argument left out (Dash's
\* default is False)
AllowInitialCall == FALSE

\* line 244
prevent_initial_call == TRUE

\* how Dash routes one returned value to a component property
Route(old, returned) == IF returned = no_update THEN old ELSE returned

s_Bogus == <<"B","o","g","u","s">>

\* the values a request may carry as the dropdown's value: the options, the
\* column "month", a name that is no column, the empty str and None
SelectionInputs ==
    {s_Electronics, s_Clothing, s_Food, s_month, s_Bogus, <<>>, None}

\* a file an earlier run left in the working directory: an export of a
\* table that had one row more
StaleText ==
    ExportText
    \o <<"J","u","l",",","2","2","0","0","0",",","1","3","5","0","0",",",
         "1","6","5","0","0","\n">>

Sessions == 1..NumSessions

\* update_dashboard on the module's table, for every value a request carries
update_dashboard == [v \in SelectionInputs |-> UpdateOn(df, v)]

\* the options of category-dropdown
Categories == DropdownOptions(df)

VARIABLES
    dropdownValue,  \* category-dropdown.value
    barChart,       \* sales-bar-chart.figure
    lineChart,      \* sales-line-chart.figure
    totalCard,      \* total-sales-card.children
    exportMsg,      \* export-msg.children
    n_clicks,       \* export-btn.n_clicks
    disk,           \* the file sales_data.csv
    rendered,       \* the page has been rendered and the initial calls made
    escaped,        \* exceptions a callback raised to Dash
    event,          \* history: the kind of the latest event
    lastIo,         \* history: the outcome of the latest export's write
    lastValid,      \* history: the latest selection that was an option
    updateCalls,    \* history: invocations of update_dashboard
    exportCalls,    \* history: invocations of export_csv
    selects,        \* history: dropdown changes
    firstExport,    \* history: the file's content after the first successful export
    okExports,      \* history: exports whose write succeeded
    spc,            \* per concurrent session: idle, writing, done
    spos,           \* per concurrent session: lines written, file offset
    overlap,        \* history: a session opened the file while another wrote
    smsg            \* per concurrent session: its export-msg.children

ui == <<dropdownValue, barChart, lineChart, totalCard, rendered, lastValid,
        updateCalls, selects>>
ex == <<exportMsg, n_clicks, escaped, lastIo, exportCalls, firstExport,
       okExports>>
conc == <<spc, spos, smsg, overlap>>
vars == <<ui, ex, disk, event, conc>>

Init ==
    /\ dropdownValue = DefaultValue
    /\ barChart = NoFigure
    /\ lineChart = NoFigure
    /\ totalCard = None
    /\ exportMsg = None
    /\ n_clicks = 0
    /\ disk \in {[exists |-> FALSE, content |-> <<>>],
                 [exists |-> TRUE, content |-> StaleText]}
    /\ rendered = FALSE
    /\ escaped = 0
    /\ event = "none"
    /\ lastIo = "none"
    /\ lastValid = None
    /\ updateCalls = 0
    /\ exportCalls = 0
    /\ selects = 0
    /\ firstExport = None
    /\ okExports = 0
    /\ spc = [s \in Sessions |-> "idle"]
    /\ spos = [s \in Sessions |-> [line |-> 0, off |-> 0]]
    /\ overlap = FALSE
    /\ smsg = [s \in Sessions |-> None]

\* Dash calls update_dashboard with `value` and routes the triple it returns
FireUpdate(value) ==
    LET out == update_dashboard[value]
    IN  /\ barChart' = Route(barChart, out[1])
        /\ lineChart' = Route(lineChart, out[2])
        /\ totalCard' = Route(totalCard, out[3])
        /\ updateCalls' = updateCalls + 1
        /\ lastValid' = IF value \in Categories THEN value ELSE lastValid

\* Dash calls export_csv and routes what it returns; an exception it raises
\* reaches Dash and leaves the output as it is
FireExport(io) ==
    LET r == export_csv(disk, io)
    IN  /\ disk' = r.disk
        /\ exportMsg' = IF r.raised THEN exportMsg ELSE Route(exportMsg, r.ret)
        /\ escaped' = IF r.raised THEN escaped + 1 ELSE escaped
        /\ exportCalls' = exportCalls + 1
        /\ lastIo' = io.kind
        /\ firstExport' = IF io.kind = "ok" /\ firstExport = None
                          THEN r.disk.content ELSE firstExport
        /\ okExports' = IF io.kind = "ok" THEN okExports + 1 ELSE okExports

\* the page is rendered: every callback without prevent_initial_call is
\* called once with the layout's values
InitialRender ==
    /\ ~rendered
    /\ rendered' = TRUE
    /\ event' = "render"
    /\ FireUpdate(dropdownValue)
    /\ IF prevent_initial_call
       THEN UNCHANGED <<ex, disk>>
       ELSE /\ FireExport([kind |-> "ok", written |-> Len(ExportText)])
            /\ UNCHANGED n_clicks
    /\ UNCHANGED <<dropdownValue, selects, conc>>

\* the dropdown's value changes to v
CategoryChanged(v) ==
    /\ rendered
    /\ selects < MaxSelects
    /\ v # dropdownValue
    /\ dropdownValue' = v
    /\ selects' = selects + 1
    /\ event' = "select"
    /\ FireUpdate(v)
    /\ UNCHANGED <<rendered, ex, disk, conc>>

\* the export button is clicked; the write meets outcome io
ExportClick(io) ==
    /\ rendered
    /\ n_clicks < MaxClicks
    /\ n_clicks' = n_clicks + 1
    /\ event' = "export"
    /\ FireExport(io)
    /\ UNCHANGED <<ui, conc>>

Next ==
    \/ InitialRender
    \/ \E v \in SelectionInputs : CategoryChanged(v)
    \/ \E io \in IoOutcomes : ExportClick(io)

Spec == Init /\ [][Next]_vars

(***************************************************************************)
(* Concurrent sessions: each browser session's export click runs           *)
(* export_csv in a request of its own.  The write of the file is not       *)
(* atomic: open truncates, then the lines go out one write at a time, each *)
(* at the writer's own offset.                                             *)
(***************************************************************************)
\* session s enters export_csv: to_csv opens the file for writing
SessOpen(s) ==
    /\ spc[s] = "idle"
    /\ disk' = OpenW(disk).file
    /\ spc' = [spc EXCEPT ![s] = "writing"]
    /\ spos' = [spos EXCEPT ![s] = [line |-> 0, off |-> OpenW(disk).offset]]
    /\ overlap' = (overlap \/ \E t \in Sessions : spc[t] = "writing")
    /\ event' = "export"
    /\ UNCHANGED <<ui, ex, smsg>>

\* session s writes its next line at its own offset
SessWrite(s) ==
    /\ spc[s] = "writing"
    /\ spos[s].line < Len(ExportLines)
    /\ LET bytes == ExportLines[spos[s].line + 1]
       IN  /\ disk' = [disk EXCEPT !.content =
                         WriteAt(disk.content, spos[s].off, bytes)]
           /\ spos' = [spos EXCEPT ![s] = [line |-> spos[s].line + 1,
                                           off  |-> spos[s].off + Len(bytes)]]
    /\ UNCHANGED <<ui, ex, event, spc, smsg, overlap>>

\* session s closes the file; export_csv returns its message
SessClose(s) ==
    /\ spc[s] = "writing"
    /\ spos[s].line = Len(ExportLines)
    /\ spc' = [spc EXCEPT ![s] = "done"]
    /\ smsg' = [smsg EXCEPT ![s] = ExportSuccess(s_filename).ret]
    /\ UNCHANGED <<ui, ex, event, disk, spos, overlap>>

NextConc ==
    \/ \E s \in Sessions : SessOpen(s)
    \/ \E s \in Sessions : SessWrite(s)
    \/ \E s \in Sessions : SessClose(s)

SpecConc == Init /\ [][NextConc]_vars

(***************************************************************************)
(* What the properties below read from a state.                            *)
(***************************************************************************)
\* the categories the specification declares
ValidCategories == {s_Electronics, s_Clothing, s_Food}

\* the month order the specification declares
MonthOrder ==
    << <<"J","a","n">>, <<"F","e","b">>, <<"M","a","r">>,
       <<"A","p","r">>, <<"M","a","y">>, <<"J","u","n">> >>

\* the total the specification gives for category c
ExpectedTotal(c) ==
    IF c = s_Electronics THEN <<"$","1","1","9",",","0","0","0">>
    ELSE IF c = s_Clothing THEN <<"$","6","4",",","0","0","0">>
    ELSE <<"$","8","4",",","5","0","0">>

\* the six values of category c in the literal of lines 45-50
LiteralValues(c) ==
    IF c = s_Electronics THEN data.vals[2]
    ELSE IF c = s_Clothing THEN data.vals[3]
    ELSE data.vals[4]

\* the (month, value) pairs of table[c], in month order
TablePairs(c) == [i \in 1..6 |-> <<MonthOrder[i], LiteralValues(c)[i]>>]

IsDigit(ch) == Contains(DigitChar, ch)

DigitValue(ch) == (CHOOSE i \in 1..10 : DigitChar[i] = ch) - 1

RECURSIVE ParseDecimal(_)
\* int(s) for a str of digits
ParseDecimal(str) ==
    IF Len(str) = 0 THEN 0
    ELSE 10 * ParseDecimal(SubSeq(str, 1, Len(str) - 1)) + DigitValue(str[Len(str)])

NotComma(ch) == ch # ","

\* the category a chart was drawn for: its title without the fixed words
ChartCategory(fig) ==
    IF fig.type = "bar" THEN SubSeq(fig.title, Len(s_bar_title) + 1, Len(fig.title))
    ELSE IF fig.type = "line"
         THEN SubSeq(fig.title, Len(s_line_title) + 1, Len(fig.title))
    ELSE None

\* the (x, y) points a figure carries, trace after trace
FigurePairs(fig) ==
    Concat([t \in 1..Len(fig.traces) |->
              [k \in 1..Len(fig.traces[t].x) |->
                 <<fig.traces[t].x[k], fig.traces[t].y[k]>>]])

(***************************************************************************)
(* C1: for every valid category c, the total update_dashboard(c) returns   *)
(* is "$" followed by the sum of the six values of table[c] written with   *)
(* thousands separators and no decimals: $119,000, $64,000, $84,500.       *)
(* Stated of the display: while a valid category is selected, the total    *)
(* card shows that text, and its digits read back as the sum.              *)
(***************************************************************************)
TotalIsFormattedSum ==
    (rendered /\ dropdownValue \in ValidCategories) =>
        /\ totalCard = ExpectedTotal(dropdownValue)
        /\ update_dashboard[dropdownValue][3] = totalCard
        /\ Head(totalCard) = "$"
        /\ ParseDecimal(SelectSeq(Tail(totalCard), NotComma))
             = SumInts(LiteralValues(dropdownValue))

\* Food has been selected and its total is shown
TotalOfFoodShown ==
    /\ rendered
    /\ event = "select"
    /\ dropdownValue = s_Food
    /\ totalCard = <<"$","8","4",",","5","0","0">>

(***************************************************************************)
(* C2: for every valid category c, the bar chart and the line chart carry  *)
(* the same 6 (month, value) pairs as table[c], in the order Jan..Jun, and *)
(* both are built for c.                                                   *)
(***************************************************************************)
ChartsCarryTablePairs ==
    (rendered /\ dropdownValue \in ValidCategories) =>
        /\ FigurePairs(barChart) = TablePairs(dropdownValue)
        /\ FigurePairs(lineChart) = TablePairs(dropdownValue)
        /\ Len(FigurePairs(barChart)) = 6
        /\ ChartCategory(barChart) = dropdownValue
        /\ ChartCategory(lineChart) = dropdownValue
        /\ update_dashboard[dropdownValue][1] = barChart
        /\ update_dashboard[dropdownValue][2] = lineChart

\* Clothing has been selected after another category and both charts show it
ClothingChartsShown ==
    /\ rendered
    /\ event = "select"
    /\ dropdownValue = s_Clothing
    /\ barChart.type = "bar"
    /\ lineChart.type = "line"
    /\ FigurePairs(lineChart)[2] = << <<"F","e","b">>, 9500 >>

(***************************************************************************)
(* C3: for every selection value that is not one of Electronics, Clothing, *)
(* Food (Bogus, the empty value, None, and also the column name month),    *)
(* update_dashboard returns no_update for both charts and the              *)
(* invalid-selection warning for the total, never the generic failure      *)
(* message.                                                                *)
(***************************************************************************)
InvalidSelectionWarned ==
    (rendered /\ dropdownValue \notin ValidCategories) =>
        /\ update_dashboard[dropdownValue] = <<no_update, no_update, s_invalid>>
        /\ totalCard = s_invalid
        /\ ~StartsWith(totalCard, s_update_error)

(***************************************************************************)
(* C4: after any sequence of dropdown changes and export clicks the two    *)
(* charts show the same category, the latest valid selection; an invalid   *)
(* selection or a computation failure changes only the total, and an       *)
(* export click changes neither chart nor the total.                       *)
(***************************************************************************)
ChartsFollowLastValid ==
    [][ /\ rendered' =>
            /\ ChartCategory(barChart') = ChartCategory(lineChart')
            /\ ChartCategory(barChart') = lastValid'
            /\ lastValid' \in ValidCategories
        /\ (event' = "select" /\ dropdownValue' \notin ValidCategories) =>
            /\ UNCHANGED <<barChart, lineChart, lastValid>>
            /\ \/ totalCard' = s_invalid
               \/ StartsWith(totalCard', s_update_error)
        /\ (event' = "select" /\ dropdownValue' \in ValidCategories) =>
            lastValid' = dropdownValue'
        /\ (event' = "export") =>
            UNCHANGED <<barChart, lineChart, totalCard, dropdownValue>>
      ]_vars

\* after a valid selection, an export and then an invalid selection, both
\* charts still show the valid one
ChartsKeptOnInvalid ==
    /\ rendered
    /\ event = "select"
    /\ dropdownValue = s_Bogus
    /\ n_clicks > 0
    /\ lastValid = s_Clothing
    /\ ChartCategory(barChart) = s_Clothing
    /\ ChartCategory(lineChart) = s_Clothing
    /\ totalCard = s_invalid

\* the computation failed on the column month and both charts were kept
ChartsKeptOnFailure ==
    /\ rendered
    /\ event = "select"
    /\ dropdownValue = s_month
    /\ StartsWith(totalCard, s_update_error)
    /\ ChartCategory(barChart) = s_Food

(***************************************************************************)
(* C5: at startup the selection is Electronics, update_dashboard is called *)
(* exactly once with it, and the total then shows $119,000 with both       *)
(* charts showing Electronics.                                             *)
(***************************************************************************)
StartupShowsDefault ==
    /\ ~rendered =>
        /\ dropdownValue = s_Electronics
        /\ updateCalls = 0
        /\ totalCard = None
    /\ (rendered /\ selects = 0 /\ n_clicks = 0) =>
        /\ dropdownValue = s_Electronics
        /\ updateCalls = 1
        /\ totalCard = <<"$","1","1","9",",","0","0","0">>
        /\ totalCard = update_dashboard[s_Electronics][3]
        /\ ChartCategory(barChart) = s_Electronics
        /\ ChartCategory(lineChart) = s_Electronics

\* the page has just been rendered and the user has done nothing yet
JustRendered ==
    /\ rendered
    /\ event = "render"
    /\ selects = 0
    /\ n_clicks = 0
    /\ updateCalls = 1

(***************************************************************************)
(* C6: the export trigger does not fire on the initial render: while no    *)
(* click has been made, export_csv has not run, the application has        *)
(* written no file and the export status is empty; each click calls        *)
(* export_csv exactly once.                                                *)
(***************************************************************************)
NoExportBeforeClick ==
    /\ exportCalls = n_clicks
    /\ n_clicks = 0 =>
        /\ exportMsg = None
        /\ okExports = 0
        /\ firstExport = None
        /\ lastIo = "none"
        /\ disk.exists => disk.content = StaleText

\* the page was rendered and the dropdown changed, without any click
ChangedWithoutClick ==
    /\ rendered
    /\ selects > 0
    /\ n_clicks = 0
    /\ exportCalls = 0
    /\ exportMsg = None

(***************************************************************************)
(* Reading a CSV file back.                                                *)
(***************************************************************************)
RECURSIVE Split(_, _)
\* str.split(sep) for a one-character separator
Split(str, sep) ==
    IF ~Contains(str, sep) THEN <<str>>
    ELSE LET i == CHOOSE k \in 1..Len(str) :
                    str[k] = sep /\ \A m \in 1..(k - 1) : str[m] # sep
         IN  <<SubSeq(str, 1, i - 1)>> \o Split(SubSeq(str, i + 1, Len(str)), sep)

\* the lines of a text, without the empty piece after a final terminator
FileLines(text) ==
    LET pieces == Split(text, "\n")
    IN  IF pieces[Len(pieces)] = <<>> THEN SubSeq(pieces, 1, Len(pieces) - 1)
        ELSE pieces

IsNumber(field) == Len(field) > 0 /\ \A i \in 1..Len(field) : IsDigit(field[i])

\* the table a CSV reader makes of a text: the first line names the
\* columns, a column whose every field is a number is a column of ints
ReadCsv(text) ==
    LET ls   == FileLines(text)
        hdr  == Split(ls[1], ",")
        rows == [i \in 1..(Len(ls) - 1) |-> Split(ls[i + 1], ",")]
        numeric(j) == \A i \in 1..Len(rows) : IsNumber(rows[i][j])
    IN  [ keys |-> hdr,
          vals |-> [j \in 1..Len(hdr) |->
                      [i \in 1..Len(rows) |->
                         IF numeric(j) THEN ParseDecimal(rows[i][j])
                         ELSE rows[i][j]]] ]

s_header ==
    <<"m","o","n","t","h",",","E","l","e","c","t","r","o","n","i","c","s",",",
      "C","l","o","t","h","i","n","g",",","F","o","o","d">>

\* `sub` occurs in `str`
Occurs(sub, str) ==
    \E i \in 0..(Len(str) - Len(sub)) : SubSeq(str, i + 1, i + Len(sub)) = sub

(***************************************************************************)
(* C7: after a successful export the file holds the header                 *)
(* month,Electronics,Clothing,Food and then exactly the 6 rows of the      *)
(* table, with no index column; read back, it is the table; the returned   *)
(* message names the file.                                                 *)
(***************************************************************************)
ExportRoundTrips ==
    (lastIo = "ok") =>
        /\ disk.exists
        /\ Len(FileLines(disk.content)) = 7
        /\ FileLines(disk.content)[1] = s_header
        /\ FileLines(disk.content)[3] =
             <<"F","e","b",",","1","8","0","0","0",",","9","5","0","0",",",
               "1","3","0","0","0">>
        /\ \A i \in 1..Len(FileLines(disk.content)) :
             Len(Split(FileLines(disk.content)[i], ",")) = 4
        /\ ReadCsv(disk.content) = data
        /\ Occurs(s_filename, exportMsg)
        /\ exportMsg = s_exported \o s_filename

\* the first export succeeded over the file an earlier run had left
ExportedOverStaleFile ==
    /\ lastIo = "ok"
    /\ event = "export"
    /\ n_clicks = 1
    /\ disk.exists
    /\ disk.content # StaleText
    /\ Len(disk.content) < Len(StaleText)

(***************************************************************************)
(* C8: export is idempotent in its output: after any number n >= 1 of      *)
(* successful exports, interleaved with dropdown changes, the file's       *)
(* content is byte for byte its content after the first one.               *)
(***************************************************************************)
ExportIdempotent ==
    (lastIo = "ok" /\ okExports >= 1) =>
        /\ firstExport # None
        /\ disk.content = firstExport

\* two exports have succeeded, with a dropdown change made as well
ExportedTwice ==
    /\ lastIo = "ok"
    /\ event = "export"
    /\ okExports >= 2
    /\ selects >= 1
    /\ disk.content = firstExport

(***************************************************************************)
(* C9: when the write fails with an I/O error, export_csv raises nothing:  *)
(* it returns "Failed to export data: " and the error's description; the   *)
(* selection, the charts and the total are unchanged; later events are     *)
(* still processed (a later export click can succeed).                     *)
(***************************************************************************)
ExportFailureReported ==
    [][ /\ (event' = "export" /\ exportCalls' = exportCalls + 1
            /\ lastIo' \in {"EACCES", "ENOSPC"}) =>
            /\ StartsWith(exportMsg', s_failed)
            /\ exportMsg' = s_failed \o (IF lastIo' = "EACCES" THEN s_eacces
                                         ELSE s_enospc)
            /\ escaped' = escaped
            /\ UNCHANGED <<dropdownValue, barChart, lineChart, totalCard>>
        /\ (lastIo \in {"EACCES", "ENOSPC"} /\ event' = "export"
            /\ lastIo' = "ok") =>
            /\ exportCalls' = exportCalls + 1
            /\ exportMsg' = s_exported \o s_filename
            /\ disk'.content = ExportText
        /\ (lastIo \in {"EACCES", "ENOSPC"} /\ event' = "select") =>
            /\ updateCalls' = updateCalls + 1
            /\ totalCard' = update_dashboard[dropdownValue'][3]
        /\ escaped' = 0
      ]_vars

\* the device filled during an export: the file is cut short, the failure
\* is shown, and another click can export
ExportFailedShort ==
    /\ rendered
    /\ event = "export"
    /\ lastIo = "ENOSPC"
    /\ exportMsg = s_failed \o s_enospc
    /\ disk.exists
    /\ disk.content # ExportText
    /\ escaped = 0
    /\ ENABLED ExportClick([kind |-> "ok", written |-> Len(ExportText)])

\* an export succeeded after an earlier one had failed
ExportedAfterFailure ==
    /\ lastIo = "ok"
    /\ event = "export"
    /\ okExports = 1
    /\ n_clicks >= 2
    /\ disk.content = ExportText

(***************************************************************************)
(* C10: when two or more sessions export at once, with writes to the one   *)
(* file that are not atomic, the file is raced for, yet once every export  *)
(* under way has completed its content is that of a single export: never a *)
(* mix or a truncation of rows.                                            *)
(***************************************************************************)
ConcurrentExportsSettle ==
    ((\A s \in Sessions : spc[s] \in {"idle", "done"})
       /\ (\E s \in Sessions : spc[s] = "done")) =>
        /\ disk.exists
        /\ disk.content = ExportText
        /\ ReadCsv(disk.content) = data
        /\ \A s \in Sessions :
             spc[s] = "done" => smsg[s] = s_exported \o s_filename

\* every session has exported, at least two of them at the same time
OverlappingExportsDone ==
    /\ \A s \in Sessions : spc[s] = "done"
    /\ overlap
    /\ disk.content = ExportText

\* during the race the file holds a gap although a session has completed
\* its export
FileTornDuringRace ==
    /\ \E s \in Sessions : spc[s] = "done"
    /\ Contains(disk.content, NUL)

=============================================================================
